---- MODULE Spec2Model ----
(***************************************************************************)
(* AgroSense.cpp: quota-aware malloc/free on a shared FreeRTOS heap.       *)
(*                                                                         *)
(* The specifications share the model of pvPortMallocWithQuota and         *)
(* vPortFreeWithTracking:                                                  *)
(*   Spec        the program: SensorTask, CommTask, HeapMonitorTask and    *)
(*               StackMonitorTask as created by setup();                   *)
(*   SpecFair    the program under a fair scheduler and a fair mutex;      *)
(*   SpecRace    callers racing paired allocate/release calls against the  *)
(*               units, with arbitrary sizes and arbitrary preemption;     *)
(*   SpecMisuse  a caller that also releases null pointers and releases    *)
(*               blocks with a size or handle it did not allocate with;    *)
(*   SpecBoth    the behaviours of Spec and of SpecRace together.          *)
(***************************************************************************)
EXTENDS Integers, Naturals, Sequences, FiniteSets, TLC

\* ==== Config (AgroSense.cpp:7-8) ====
SENSOR_TASK_QUOTA == 2048
COMM_TASK_QUOTA == 2048

\* ==== Bounds of the model ====
\* width of size_t in the model (32 on the target; the arithmetic is mod 2^w)
SizeBits == 16
\* bytes the Heap Provider can hand out in total
HeapCapacity == 3072
\* number of blocks the Heap Provider can have outstanding (pointer values)
MaxBlocks == 3
\* number of blocks one racing caller may hold at a time
MaxHeld == 2
\* number of releases made against the caller contract in one run
MaxMisuse == 2

SizeMod == 2 ^ SizeBits

NULL == 0
Ptrs == 1 .. MaxBlocks

\* ==== Task Handles (AgroSense.cpp:12-14) ====
sensorTaskHandle == "SensorTask"
commTaskHandle == "CommTask"
heapMonitorHandle == "HeapMonitor"
stackMonitorHandle == "StackMonitor"
\* a handle that matches neither sensorTaskHandle nor commTaskHandle
otherHandle == "Other"

Workers == {sensorTaskHandle, commTaskHandle}
Monitors == {heapMonitorHandle, stackMonitorHandle}
Tasks == Workers \cup Monitors
Callers == {"c1", "c2"}
Threads == Tasks \cup Callers
Units == {sensorTaskHandle, commTaskHandle}
Handles == Units \cup {otherHandle}
NoTask == "none"

VARIABLES
    sensorMemUsage,  \* size_t sensorMemUsage                (line 17)
    commMemUsage,    \* size_t commMemUsage                  (line 18)
    memMutex,        \* holder of memMutex, or NoTask        (line 19)
    heap,            \* Heap Provider: pointer -> size of the live block, 0 if free
    owner,           \* Heap Provider side record: pointer -> handle it was handed out for
    pc,              \* position of each thread
    ret,             \* where the current call returns to
    argSize,         \* parameter size of the current call
    argHandle,       \* parameter taskHandle of the current call
    ptr,             \* pvPortMallocWithQuota: local ptr; vPortFreeWithTracking: parameter ptr
    seen,            \* value of the usage counter read by the quota check of the current call
    reg,             \* value loaded by the += / -= of the current call
    heapCalls,       \* number of pvPortMalloc invocations made by the current call
    allocSize,       \* local allocSize of SensorTask / CommTask
    data,            \* local data / packet of SensorTask / CommTask
    serial,          \* lines each thread printed in its current iteration / call
    held,            \* blocks each racing caller holds: records [ptr, size, handle]
    misuse           \* number of calls made so far against the caller contract

vars == <<sensorMemUsage, commMemUsage, memMutex, heap, owner, pc, ret, argSize, argHandle, ptr, seen, reg, heapCalls,
          allocSize, data, serial, held, misuse>>

ledger == <<sensorMemUsage, commMemUsage>>
frame == <<argSize, argHandle, seen, reg, heapCalls>>
locals == <<allocSize, data>>
provider == <<heap, owner>>

RECURSIVE SumOver(_, _)
SumOver(S, f) ==
    IF S = {} THEN 0
    ELSE LET x == CHOOSE y \in S : TRUE IN f[x] + SumOver(S \ {x}, f)

\* the ledger entry of a unit
Usage(h) == IF h = sensorTaskHandle THEN sensorMemUsage ELSE commMemUsage
Quota(h) == IF h = sensorTaskHandle THEN SENSOR_TASK_QUOTA ELSE COMM_TASK_QUOTA

\* size_t arithmetic
AddSize(a, b) == (a + b) % SizeMod
SubSize_Off(a, b) == a
SubSize_Clamp(a, b) == IF b > a THEN 0 ELSE a - b
SubSize(a, b) == (a - b + SizeMod) % SizeMod

\* ==== Heap Provider (pvPortMalloc / vPortFree / xPortGetFreeHeapSize) ====
HeapUsed(hp) == SumOver(Ptrs, hp)
FreeHeapSize(hp) == HeapCapacity - HeapUsed(hp)
FreePtrs(hp) == {p \in Ptrs : hp[p] = 0}
\* the results pvPortMalloc(size) may produce: NULL (always possible: the heap is
\* shared with the rest of the system and may be fragmented), or a fresh block
\* when the bytes are there
MallocResults(hp, size) ==
    {NULL} \cup
    (IF size <= FreeHeapSize(hp) /\ FreePtrs(hp) # {}
     THEN {CHOOSE p \in FreePtrs(hp) : \A q \in FreePtrs(hp) : p <= q}
     ELSE {})

\* ==== Serial.printf lines: <<kind, who, a, b, c>> ====
Line(kind, who, a, b, c) == <<kind, who, a, b, c>>
Emit(t, line) == serial' = [serial EXCEPT ![t] = Append(@, line)]
Kinds(t) == {serial[t][i][1] : i \in 1 .. Len(serial[t])}

\* ==== xSemaphoreTake(memMutex, portMAX_DELAY): blocks while another holds it ====
CanTake_NoBlock(t) == TRUE
CanTake(t) == memMutex = NoTask

\* ==== the quota test of lines 27 / 35 ====
QuotaCheck_NoSize(used, size, quota) == used <= quota
QuotaCheck_Strict(used, size, quota) == AddSize(used, size) < quota
QuotaCheck(used, size, quota) == AddSize(used, size) <= quota

\* ==== the branch taken on the outcome of the quota test (lines 27-33 / 35-41) ====
AfterCheck_Silent(ok) == IF ok THEN "m_malloc" ELSE "m_give"
AfterCheck(ok) == IF ok THEN "m_malloc" ELSE "m_printf"

\* ==== the counter a handle's branch writes (lines 29, 37, 54, 56) ====
StoreUsage_Shared(h, v) ==
    /\ sensorMemUsage' = v
    /\ UNCHANGED commMemUsage
StoreUsage(h, v) ==
    IF h = sensorTaskHandle
    THEN /\ sensorMemUsage' = v
         /\ UNCHANGED commMemUsage
    ELSE /\ commMemUsage' = v
         /\ UNCHANGED sensorMemUsage

\* ==== xSemaphoreGive(memMutex) by thread t (lines 44 / 59): the holder afterwards ====
XSemaphoreGive_Skipped(t) == memMutex
XSemaphoreGive(t) == NoTask

\* ==== `if (!ptr) return` of line 49 ====
IsNull_Never(p) == FALSE
IsNull(p) == p = NULL

\* ==== the dispatch of lines 53 / 55 after vPortFree ====
AfterFree_Else(h) == "f_sub"
AfterFree(h) == IF h \in Units THEN "f_sub" ELSE "f_give"

\* ==== `if (data != NULL)` of lines 79 / 101 ====
AfterRequest_Always(p) == "t_print"
AfterRequest(p) == IF p # NULL THEN "t_print" ELSE "t_sleep"

\* ==== `if (ptr) usage += size` of lines 29 / 37 ====
AfterMalloc_Always(p) == "m_add"
AfterMalloc(p) == IF p # NULL THEN "m_add" ELSE "m_give"

\* ==== pvPortMallocWithQuota (lines 22-46) ====
\* entering the call, to return to location `to`
CallMalloc(t, size, handle, to) ==
    /\ pc' = [pc EXCEPT ![t] = "m_take"]
    /\ ret' = [ret EXCEPT ![t] = to]
    /\ argSize' = [argSize EXCEPT ![t] = size]
    /\ argHandle' = [argHandle EXCEPT ![t] = handle]
    /\ ptr' = [ptr EXCEPT ![t] = NULL]
    /\ seen' = [seen EXCEPT ![t] = 0]
    /\ reg' = [reg EXCEPT ![t] = 0]
    /\ heapCalls' = [heapCalls EXCEPT ![t] = 0]

\* line 23
MallocTake(t) ==
    /\ pc[t] = "m_take"
    /\ CanTake(t)
    /\ memMutex' = t
    /\ pc' = [pc EXCEPT ![t] = "m_check"]
    /\ UNCHANGED <<ledger, provider, ret, ptr, frame, locals, serial, held, misuse>>

\* lines 25-27, 34-35: ptr = NULL, dispatch on the handle, quota test
MallocCheck(t) ==
    /\ pc[t] = "m_check"
    /\ ptr' = [ptr EXCEPT ![t] = NULL]
    /\ IF argHandle[t] \in Units
       THEN /\ seen' = [seen EXCEPT ![t] = Usage(argHandle[t])]
            /\ pc' = [pc EXCEPT ![t] =
                        AfterCheck(QuotaCheck(Usage(argHandle[t]), argSize[t],
                                              Quota(argHandle[t])))]
       ELSE /\ seen' = seen
            /\ pc' = [pc EXCEPT ![t] = "m_give"]
    /\ UNCHANGED <<ledger, memMutex, provider, ret, argSize, argHandle,
                   reg, heapCalls, locals, serial, held, misuse>>

\* lines 28 / 36: ptr = pvPortMalloc(size)
MallocHeap(t) ==
    /\ pc[t] = "m_malloc"
    /\ \E p \in MallocResults(heap, argSize[t]) :
        /\ ptr' = [ptr EXCEPT ![t] = p]
        /\ IF p # NULL
           THEN /\ heap' = [heap EXCEPT ![p] = argSize[t]]
                /\ owner' = [owner EXCEPT ![p] = argHandle[t]]
           ELSE UNCHANGED provider
        /\ pc' = [pc EXCEPT ![t] = AfterMalloc(p)]
    /\ heapCalls' = [heapCalls EXCEPT ![t] = @ + 1]
    /\ UNCHANGED <<ledger, memMutex, ret, argSize, argHandle, seen, reg,
                   locals, serial, held, misuse>>

\* lines 29 / 37: usage += size, the load
MallocAddLoad(t) ==
    /\ pc[t] = "m_add"
    /\ reg' = [reg EXCEPT ![t] = Usage(argHandle[t])]
    /\ pc' = [pc EXCEPT ![t] = "m_store"]
    /\ UNCHANGED <<ledger, memMutex, provider, ret, argSize, argHandle,
                   ptr, seen, heapCalls, locals, serial, held, misuse>>

\* lines 29 / 37: usage += size, the store
MallocAddStore(t) ==
    /\ pc[t] = "m_store"
    /\ StoreUsage(argHandle[t], AddSize(reg[t], argSize[t]))
    /\ pc' = [pc EXCEPT ![t] = "m_give"]
    /\ UNCHANGED <<memMutex, provider, ret, ptr, frame, locals, serial, held, misuse>>

\* lines 31-32 / 39-40: the "Quota exceeded" line
MallocPrintf(t) ==
    /\ pc[t] = "m_printf"
    /\ Emit(t, Line("QuotaExceeded", argHandle[t], argSize[t],
                    Usage(argHandle[t]), Quota(argHandle[t])))
    /\ pc' = [pc EXCEPT ![t] = "m_give"]
    /\ UNCHANGED <<ledger, memMutex, provider, ret, ptr, frame, locals, held, misuse>>

\* lines 44-45: xSemaphoreGive(memMutex); return ptr
\* (the caller receives ptr; what the call did stays on record until the caller
\* has looked at the result)
MallocGive(t) ==
    /\ pc[t] = "m_give"
    /\ memMutex' = XSemaphoreGive(t)
    /\ pc' = [pc EXCEPT ![t] = ret[t]]
    /\ ret' = [ret EXCEPT ![t] = "off"]
    /\ reg' = [reg EXCEPT ![t] = 0]
    /\ UNCHANGED <<ledger, provider, ptr, argSize, argHandle, seen, heapCalls, locals,
                   serial, held, misuse>>

\* ==== vPortFreeWithTracking (lines 48-60) ====
CallFree(t, p, size, handle, to) ==
    /\ pc' = [pc EXCEPT ![t] = "f_entry"]
    /\ ret' = [ret EXCEPT ![t] = to]
    /\ argSize' = [argSize EXCEPT ![t] = size]
    /\ argHandle' = [argHandle EXCEPT ![t] = handle]
    /\ ptr' = [ptr EXCEPT ![t] = p]
    /\ seen' = [seen EXCEPT ![t] = 0]
    /\ reg' = [reg EXCEPT ![t] = 0]
    /\ heapCalls' = [heapCalls EXCEPT ![t] = 0]

\* the call returns: its frame is gone
Return(t) ==
    /\ pc' = [pc EXCEPT ![t] = ret[t]]
    /\ ret' = [ret EXCEPT ![t] = "off"]
    /\ argSize' = [argSize EXCEPT ![t] = 0]
    /\ argHandle' = [argHandle EXCEPT ![t] = NoTask]
    /\ ptr' = [ptr EXCEPT ![t] = NULL]
    /\ seen' = [seen EXCEPT ![t] = 0]
    /\ reg' = [reg EXCEPT ![t] = 0]
    /\ heapCalls' = [heapCalls EXCEPT ![t] = 0]

\* line 49: if (!ptr) return
FreeEntry(t) ==
    /\ pc[t] = "f_entry"
    /\ IF IsNull(ptr[t])
       THEN Return(t)
       ELSE /\ pc' = [pc EXCEPT ![t] = "f_take"]
            /\ UNCHANGED <<ret, ptr, frame>>
    /\ UNCHANGED <<ledger, memMutex, provider, locals, serial, held, misuse>>

\* line 50
FreeTake(t) ==
    /\ pc[t] = "f_take"
    /\ CanTake(t)
    /\ memMutex' = t
    /\ pc' = [pc EXCEPT ![t] = "f_free"]
    /\ UNCHANGED <<ledger, provider, ret, ptr, frame, locals, serial, held, misuse>>

\* line 51: vPortFree(ptr), then the dispatch of lines 53 / 55
FreeHeap(t) ==
    /\ pc[t] = "f_free"
    /\ heap' = [heap EXCEPT ![ptr[t]] = 0]
    /\ owner' = [owner EXCEPT ![ptr[t]] = NoTask]
    /\ pc' = [pc EXCEPT ![t] = AfterFree(argHandle[t])]
    /\ UNCHANGED <<ledger, memMutex, ret, ptr, frame, locals, serial, held, misuse>>

\* lines 54 / 56: usage -= size, the load
FreeSubLoad(t) ==
    /\ pc[t] = "f_sub"
    /\ reg' = [reg EXCEPT ![t] = Usage(argHandle[t])]
    /\ pc' = [pc EXCEPT ![t] = "f_store"]
    /\ UNCHANGED <<ledger, memMutex, provider, ret, argSize, argHandle,
                   ptr, seen, heapCalls, locals, serial, held, misuse>>

\* lines 54 / 56: usage -= size, the store
FreeSubStore(t) ==
    /\ pc[t] = "f_store"
    /\ StoreUsage(argHandle[t], SubSize(reg[t], argSize[t]))
    /\ pc' = [pc EXCEPT ![t] = "f_give"]
    /\ UNCHANGED <<memMutex, provider, ret, ptr, frame, locals, serial, held, misuse>>

\* lines 59-60: xSemaphoreGive(memMutex); return
FreeGive(t) ==
    /\ pc[t] = "f_give"
    /\ memMutex' = XSemaphoreGive(t)
    /\ Return(t)
    /\ UNCHANGED <<ledger, provider, locals, serial, held, misuse>>

\* values of rand() the model draws
RandSamples == {0, 1536, 1537, 2047}
\* line 75: 256 + (rand() % 1024); line 97: 512 + (rand() % 2048)
AllocSizeOf(w, r) ==
    IF w = sensorTaskHandle THEN 256 + (r % 1024) ELSE 512 + (r % 2048)

\* ==== SensorTask (lines 71-90) / CommTask (lines 93-112) ====
\* lines 75-78 / 97-100: pick the size, print it, call pvPortMallocWithQuota
TaskRequest(w) ==
    /\ pc[w] = "t_loop"
    /\ \E r \in RandSamples :
        /\ allocSize' = [allocSize EXCEPT ![w] = AllocSizeOf(w, r)]
        /\ serial' = [serial EXCEPT ![w] =
                        <<Line("Allocating", w, AllocSizeOf(w, r), 0, 0)>>]
        /\ CallMalloc(w, AllocSizeOf(w, r), w, "t_got")
    /\ UNCHANGED <<ledger, memMutex, provider, data, held, misuse>>

\* lines 78-79 / 100-101: data = the result; if (data != NULL)
TaskGot(w) ==
    /\ pc[w] = "t_got"
    /\ data' = [data EXCEPT ![w] = ptr[w]]
    /\ pc' = [pc EXCEPT ![w] = AfterRequest(ptr[w])]
    /\ argSize' = [argSize EXCEPT ![w] = 0]
    /\ argHandle' = [argHandle EXCEPT ![w] = NoTask]
    /\ ptr' = [ptr EXCEPT ![w] = NULL]
    /\ seen' = [seen EXCEPT ![w] = 0]
    /\ heapCalls' = [heapCalls EXCEPT ![w] = 0]
    /\ UNCHANGED <<ledger, memMutex, provider, ret, reg, allocSize, serial, held, misuse>>

\* lines 80-81 / 102-103: print the usage counter (read here, without memMutex)
TaskPrintUsage(w) ==
    /\ pc[w] = "t_print"
    /\ Emit(w, Line("Allocated", w, Usage(w), Quota(w), 0))
    /\ pc' = [pc EXCEPT ![w] = "t_hold"]
    /\ UNCHANGED <<ledger, memMutex, provider, ret, ptr, frame, locals, held, misuse>>

\* lines 82-84 / 104-106: stressStack(...) and vTaskDelay while holding the block,
\* then call vPortFreeWithTracking(data, allocSize, self)
TaskRelease(w) ==
    /\ pc[w] = "t_hold"
    /\ CallFree(w, data[w], allocSize[w], w, "t_freed")
    /\ UNCHANGED <<ledger, memMutex, provider, locals, serial, held, misuse>>

\* lines 85 / 107
TaskFreed(w) ==
    /\ pc[w] = "t_freed"
    /\ Emit(w, Line("Freed", w, 0, 0, 0))
    /\ pc' = [pc EXCEPT ![w] = "t_sleep"]
    /\ UNCHANGED <<ledger, memMutex, provider, ret, ptr, frame, locals, held, misuse>>

\* lines 88 / 110: vTaskDelay is over, the next iteration starts afresh
TaskWake(w) ==
    /\ pc[w] = "t_sleep"
    /\ pc' = [pc EXCEPT ![w] = "t_loop"]
    /\ allocSize' = [allocSize EXCEPT ![w] = 0]
    /\ data' = [data EXCEPT ![w] = NULL]
    /\ serial' = [serial EXCEPT ![w] = <<>>]
    /\ UNCHANGED <<ledger, memMutex, provider, ret, ptr, frame, held, misuse>>

\* ==== HeapMonitorTask (lines 115-122) ====
HeapMonitorReport_Locked ==
    /\ pc[heapMonitorHandle] = "h_loop"
    /\ memMutex = NoTask
    /\ pc' = [pc EXCEPT ![heapMonitorHandle] = "h_sleep"]
    /\ UNCHANGED <<ledger, memMutex, provider, ret, ptr, frame, locals, serial, held, misuse>>

\* lines 117-119: the line printed from the Heap Provider's counters
HeapMonitorReport ==
    /\ pc[heapMonitorHandle] = "h_loop"
    /\ pc' = [pc EXCEPT ![heapMonitorHandle] = "h_sleep"]
    /\ UNCHANGED <<ledger, memMutex, provider, ret, ptr, frame, locals, serial, held, misuse>>

\* line 120
HeapMonitorWake ==
    /\ pc[heapMonitorHandle] = "h_sleep"
    /\ pc' = [pc EXCEPT ![heapMonitorHandle] = "h_loop"]
    /\ UNCHANGED <<ledger, memMutex, provider, ret, ptr, frame, locals, serial, held, misuse>>

\* ==== StackMonitorTask (lines 125-134) ====
\* lines 127-131: the line printed from the scheduler's stack marks
StackMonitorReport ==
    /\ pc[stackMonitorHandle] = "s_loop"
    /\ pc' = [pc EXCEPT ![stackMonitorHandle] = "s_sleep"]
    /\ UNCHANGED <<ledger, memMutex, provider, ret, ptr, frame, locals, serial, held, misuse>>

\* line 132
StackMonitorWake ==
    /\ pc[stackMonitorHandle] = "s_sleep"
    /\ pc' = [pc EXCEPT ![stackMonitorHandle] = "s_loop"]
    /\ UNCHANGED <<ledger, memMutex, provider, ret, ptr, frame, locals, serial, held, misuse>>

\* ==== racing callers: paired allocate / release calls, any size, any handle ====
RaceSizes == {1024, 1280, SizeMod - 1024}

\* a caller starts pvPortMallocWithQuota(size, handle)
RaceAllocate(c) ==
    /\ pc[c] = "c_idle"
    /\ Cardinality(held[c]) < MaxHeld
    /\ \E size \in RaceSizes, handle \in Handles :
        CallMalloc(c, size, handle, "c_got")
    /\ UNCHANGED <<ledger, memMutex, provider, locals, serial, held, misuse>>

\* the call returned: a non-null pointer is recorded with its size and handle
RaceGot(c) ==
    /\ pc[c] = "c_got"
    /\ held' = [held EXCEPT ![c] =
                  IF ptr[c] # NULL
                  THEN @ \cup {[ptr |-> ptr[c], size |-> argSize[c], handle |-> argHandle[c]]}
                  ELSE @]
    /\ pc' = [pc EXCEPT ![c] = "c_idle"]
    /\ argSize' = [argSize EXCEPT ![c] = 0]
    /\ argHandle' = [argHandle EXCEPT ![c] = NoTask]
    /\ ptr' = [ptr EXCEPT ![c] = NULL]
    /\ serial' = [serial EXCEPT ![c] = <<>>]
    /\ seen' = [seen EXCEPT ![c] = 0]
    /\ heapCalls' = [heapCalls EXCEPT ![c] = 0]
    /\ UNCHANGED <<ledger, memMutex, provider, ret, reg, locals, misuse>>

\* a caller releases one of its blocks, with the size and handle it was allocated with
RaceRelease(c) ==
    /\ pc[c] = "c_idle"
    /\ \E rec \in held[c] :
        /\ held' = [held EXCEPT ![c] = @ \ {rec}]
        /\ CallFree(c, rec.ptr, rec.size, rec.handle, "c_idle")
    /\ UNCHANGED <<ledger, memMutex, provider, locals, serial, misuse>>

\* ==== callers outside the caller contract ====
\* vPortFreeWithTracking(NULL, size, handle), any size, any handle
MisuseFreeNull(c) ==
    /\ pc[c] = "c_idle"
    /\ \E size \in RaceSizes, handle \in Handles :
        CallFree(c, NULL, size, handle, "c_idle")
    /\ UNCHANGED <<ledger, memMutex, provider, locals, serial, held, misuse>>

\* a block is released with a size or a handle other than the one it was allocated with
MisuseRelease(c) ==
    /\ pc[c] = "c_idle"
    /\ misuse < MaxMisuse
    /\ \E rec \in held[c], size \in RaceSizes, handle \in Handles :
        /\ size # rec.size \/ handle # rec.handle
        /\ held' = [held EXCEPT ![c] = @ \ {rec}]
        /\ CallFree(c, rec.ptr, size, handle, "c_idle")
    /\ misuse' = misuse + 1
    /\ UNCHANGED <<ledger, memMutex, provider, locals, serial>>

\* ==== the state after setup() (lines 137-149) ====
InitShared ==
    /\ sensorMemUsage = 0
    /\ commMemUsage = 0
    /\ memMutex = NoTask
    /\ heap = [p \in Ptrs |-> 0]
    /\ owner = [p \in Ptrs |-> NoTask]
    /\ ret = [t \in Threads |-> "off"]
    /\ argSize = [t \in Threads |-> 0]
    /\ argHandle = [t \in Threads |-> NoTask]
    /\ ptr = [t \in Threads |-> NULL]
    /\ seen = [t \in Threads |-> 0]
    /\ reg = [t \in Threads |-> 0]
    /\ heapCalls = [t \in Threads |-> 0]
    /\ allocSize = [t \in Workers |-> 0]
    /\ data = [t \in Workers |-> NULL]
    /\ serial = [t \in Threads |-> <<>>]
    /\ held = [c \in Callers |-> {}]
    /\ misuse = 0

Init ==
    /\ InitShared
    /\ pc = [t \in Threads |->
               IF t \in Workers THEN "t_loop"
               ELSE IF t = heapMonitorHandle THEN "h_loop"
               ELSE IF t = stackMonitorHandle THEN "s_loop"
               ELSE "off"]

InitRace ==
    /\ InitShared
    /\ pc = [t \in Threads |-> IF t \in Callers THEN "c_idle" ELSE "off"]

\* one caller that may break the caller contract
Misuser == "c1"
InitMisuse ==
    /\ InitShared
    /\ pc = [t \in Threads |-> IF t = Misuser THEN "c_idle" ELSE "off"]

\* one step of pvPortMallocWithQuota / vPortFreeWithTracking by thread t
QuotaStep(t) ==
    \/ MallocTake(t)
    \/ MallocCheck(t)
    \/ MallocHeap(t)
    \/ MallocAddLoad(t)
    \/ MallocAddStore(t)
    \/ MallocPrintf(t)
    \/ MallocGive(t)
    \/ FreeEntry(t)
    \/ FreeTake(t)
    \/ FreeHeap(t)
    \/ FreeSubLoad(t)
    \/ FreeSubStore(t)
    \/ FreeGive(t)

WorkerStep(w) ==
    \/ TaskRequest(w)
    \/ TaskGot(w)
    \/ TaskPrintUsage(w)
    \/ TaskRelease(w)
    \/ TaskFreed(w)
    \/ TaskWake(w)

Next ==
    \/ \E w \in Workers : WorkerStep(w)
    \/ \E w \in Workers : QuotaStep(w)
    \/ HeapMonitorReport
    \/ HeapMonitorWake
    \/ StackMonitorReport
    \/ StackMonitorWake

Spec == Init /\ [][Next]_vars

NextRace ==
    \/ \E c \in Callers : RaceAllocate(c)
    \/ \E c \in Callers : RaceGot(c)
    \/ \E c \in Callers : RaceRelease(c)
    \/ \E c \in Callers : QuotaStep(c)

SpecRace == InitRace /\ [][NextRace]_vars

\* callers that may break the caller contract
NextMisuse ==
    \/ RaceAllocate(Misuser)
    \/ RaceGot(Misuser)
    \/ RaceRelease(Misuser)
    \/ MisuseFreeNull(Misuser)
    \/ MisuseRelease(Misuser)
    \/ QuotaStep(Misuser)

SpecMisuse == InitMisuse /\ [][NextMisuse]_vars

\* the program, or the racing callers: what holds of both deployments of the
\* two functions
SpecBoth == (Init \/ InitRace) /\ [][Next \/ NextRace]_vars

\* the program under a fair scheduler (equal-priority tasks, time sliced) and a
\* mutex that is eventually granted to every waiter
TaskStep(t) ==
    \/ t \in Workers /\ (WorkerStep(t) \/ QuotaStep(t))
    \/ t = heapMonitorHandle /\ (HeapMonitorReport \/ HeapMonitorWake)
    \/ t = stackMonitorHandle /\ (StackMonitorReport \/ StackMonitorWake)

Fairness ==
    /\ \A t \in Tasks : WF_vars(TaskStep(t))
    /\ \A w \in Workers : SF_vars(MallocTake(w) \/ FreeTake(w))

SpecFair == Init /\ [][Next]_vars /\ Fairness

TypeOK ==
    /\ sensorMemUsage \in 0 .. SizeMod - 1
    /\ commMemUsage \in 0 .. SizeMod - 1
    /\ memMutex \in Threads \cup {NoTask}
    /\ \A p \in Ptrs : heap[p] \in 0 .. SizeMod - 1

(***************************************************************************)
(* Properties                                                              *)
(***************************************************************************)
\* bytes of the live blocks the Heap Provider handed out for unit h
LiveBytes(h) == SumOver({p \in Ptrs : owner[p] = h}, heap)
\* bytes the racing callers hold for unit h: allocated with success, not yet released
HeldFor(h) == {rec \in UNION {held[c] : c \in Callers} : rec.handle = h}
HeldBytes(h) == SumOver(HeldFor(h), [rec \in HeldFor(h) |-> rec.size])
AllIdle == \A c \in Callers : pc[c] = "c_idle"
\* a call of pvPortMallocWithQuota for a registered unit is about to return
Returning(t) == pc[t] = "m_give" /\ argHandle[t] \in Units
\* the locations at which a thread reads or writes sensorMemUsage / commMemUsage
LedgerAccess == {"m_check", "m_add", "m_store", "m_printf", "f_sub", "f_store", "t_print"}
FailureKinds == {"QuotaExceeded", "OutOfMemory"}

\* C1: in every reachable state of the program (Sensor and Comm loops interleaved)
\* 0 <= sensorMemUsage <= SENSOR_TASK_QUOTA and 0 <= commMemUsage <= COMM_TASK_QUOTA.
C1_UsageWithinQuota ==
    /\ 0 <= sensorMemUsage /\ sensorMemUsage <= SENSOR_TASK_QUOTA
    /\ 0 <= commMemUsage /\ commMemUsage <= COMM_TASK_QUOTA

\* both units hold a block at once, the Comm unit one that fills its quota
C1_Witness ==
    /\ commMemUsage = COMM_TASK_QUOTA
    /\ sensorMemUsage > 0
    /\ pc[sensorTaskHandle] = "t_hold"
    /\ pc[commTaskHandle] = "t_hold"

\* C2 (as stated): a call for a registered unit with usage U and size S returns a
\* non-null pointer and leaves used = U + S if and only if U + S <= Q; otherwise it
\* returns null and used remains U.
C2_SucceedsIffFits ==
    \A t \in Threads : Returning(t) =>
        IF seen[t] + argSize[t] <= Quota(argHandle[t])
        THEN ptr[t] # NULL /\ Usage(argHandle[t]) = seen[t] + argSize[t]
        ELSE ptr[t] = NULL /\ Usage(argHandle[t]) = seen[t]

\* C2 (amended): the call succeeds if and only if U + S <= Q and the Heap Provider,
\* which is asked whenever U + S <= Q, returns a block; on success used = U + S and
\* the block has size S, otherwise the call returns null and used remains U.
C2_SucceedsIffFitsAndHeapGives ==
    \A t \in Threads : Returning(t) =>
        /\ seen[t] + argSize[t] <= Quota(argHandle[t]) => heapCalls[t] = 1
        /\ ptr[t] # NULL <=>
             /\ seen[t] + argSize[t] <= Quota(argHandle[t])
             /\ heapCalls[t] = 1
             /\ \E p \in Ptrs : p = ptr[t] /\ heap[p] = argSize[t]
                                /\ owner[p] = argHandle[t]
        /\ Usage(argHandle[t]) =
             IF ptr[t] # NULL THEN seen[t] + argSize[t] ELSE seen[t]

\* a request that fills the quota exactly succeeds on top of an earlier block
C2_Witness ==
    \E t \in Callers :
        /\ Returning(t)
        /\ seen[t] > 0
        /\ seen[t] + argSize[t] = Quota(argHandle[t])
        /\ ptr[t] # NULL

\* C3: callers racing on the same unit: the live blocks of a unit never exceed its
\* quota (two calls never both succeed when only one fits), and once every call has
\* returned used equals the bytes allocated with success and not yet released.
C3_NoLostUpdate ==
    /\ \A h \in Units : LiveBytes(h) <= Quota(h)
    /\ AllIdle => \A h \in Units : Usage(h) = HeldBytes(h)

\* both callers hold a block of the same unit, which is full
C3_Witness ==
    /\ AllIdle
    /\ \A c \in Callers : \E rec \in held[c] : rec.handle = sensorTaskHandle
    /\ sensorMemUsage = SENSOR_TASK_QUOTA

\* C4: with every successful allocation released exactly once with its size and
\* unit, used is 0 for every unit once nothing is outstanding, and no used ever
\* exceeds its quota.
C4_Conservation ==
    /\ \A h \in Units : Usage(h) <= Quota(h)
    /\ (\A c \in Callers : held[c] = {} /\ pc[c] \in {"c_idle", "f_give"}) =>
          \A h \in Units : Usage(h) = 0

\* the last release is returning while nothing else is outstanding
C4_Witness ==
    /\ \E c \in Callers : pc[c] = "f_give" /\ argHandle[c] \in Units
    /\ \A c \in Callers : held[c] = {} /\ pc[c] \in {"c_idle", "f_give"}
    /\ \A h \in Units : Usage(h) = 0

\* C5: whenever memMutex is free, used of every unit equals the bytes of the blocks
\* the Heap Provider returned for it and that were not released.
C5_LedgerMatchesHeap ==
    memMutex = NoTask => \A h \in Units : Usage(h) = LiveBytes(h)

\* a call came back empty-handed from the Heap Provider while the unit held blocks
C5_Witness ==
    /\ memMutex = NoTask
    /\ \E c \in Callers :
        /\ pc[c] = "c_got"
        /\ argHandle[c] \in Units
        /\ heapCalls[c] = 1
        /\ ptr[c] = NULL
        /\ Usage(argHandle[c]) > 0

\* C6: a step of a call made for one unit leaves the other unit's used unchanged,
\* and a rejection is due to the usage of the unit the call was made for.
C6_Frame ==
    \A t \in Threads :
        (pc'[t] # pc[t] /\ pc[t] \notin {"c_idle", "c_got"}) =>
            /\ argHandle[t] # sensorTaskHandle => sensorMemUsage' = sensorMemUsage
            /\ argHandle[t] # commTaskHandle => commMemUsage' = commMemUsage
C6_RejectionIsOwn ==
    \A t \in Threads : pc[t] = "m_printf" =>
        AddSize(Usage(argHandle[t]), argSize[t]) > Quota(argHandle[t])
C6_Isolation == []C6_RejectionIsOwn /\ [][C6_Frame]_vars

\* a Comm request succeeds while the Sensor unit has used up its quota
C6_Witness ==
    \E t \in Callers :
        /\ Returning(t)
        /\ argHandle[t] = commTaskHandle
        /\ ptr[t] # NULL
        /\ sensorMemUsage = SENSOR_TASK_QUOTA

\* C7: a thread that reads or writes sensorMemUsage / commMemUsage holds memMutex.
C7_LedgerOnlyUnderLock ==
    \A t \in Threads : pc[t] \in LedgerAccess => memMutex = t

\* C8: a call whose quota test fails does not invoke the Heap Provider, leaves used
\* unchanged, prints one line with the requested size and the current and maximum
\* usage, releases memMutex and returns null.
C8_Rejection ==
    \A t \in Threads :
        (/\ argHandle[t] \in Units
         /\ AddSize(seen[t], argSize[t]) > Quota(argHandle[t])) =>
            /\ pc[t] = "m_give" =>
                 /\ heapCalls[t] = 0
                 /\ ptr[t] = NULL
                 /\ Usage(argHandle[t]) = seen[t]
                 /\ serial[t] = <<Line("QuotaExceeded", argHandle[t], argSize[t],
                                       seen[t], Quota(argHandle[t]))>>
            /\ pc[t] = "c_got" =>
                 /\ heapCalls[t] = 0
                 /\ ptr[t] = NULL
                 /\ memMutex # t
                 /\ Len(serial[t]) = 1

\* a rejected call has returned
C8_Witness ==
    \E t \in Callers :
        /\ pc[t] = "c_got"
        /\ argHandle[t] \in Units
        /\ AddSize(seen[t], argSize[t]) > Quota(argHandle[t])
        /\ seen[t] > 0

\* C9: when the quota test passes and the Heap Provider returns no memory, the call
\* returns null with used of every unit as it was and memMutex released.
C9_State ==
    \A t \in Threads :
        (argHandle[t] \in Units /\ heapCalls[t] = 1 /\ ptr[t] = NULL) =>
            /\ pc[t] \in {"m_give", "c_got"}
            /\ pc[t] = "m_give" => Usage(argHandle[t]) = seen[t]
            /\ pc[t] = "c_got" => memMutex # t
C9_Step ==
    \A t \in Threads :
        (pc[t] \in {"m_malloc", "m_give"} /\ pc'[t] # pc[t] /\ ptr'[t] = NULL) =>
            UNCHANGED ledger
C9_OutOfMemory == []C9_State /\ [][C9_Step]_vars

\* the Heap Provider refused a request that fitted the quota, and the call returned
C9_Witness ==
    \E t \in Callers :
        /\ pc[t] = "c_got"
        /\ argHandle[t] \in Units
        /\ heapCalls[t] = 1
        /\ ptr[t] = NULL
        /\ seen[t] + argSize[t] <= Quota(argHandle[t])

\* C10: a workload unit whose request failed has printed a failure line by the time
\* it sleeps.
C10_FailureIsReported ==
    \A w \in Workers :
        (pc[w] = "t_sleep" /\ data[w] = NULL) => Kinds(w) \cap FailureKinds # {}

\* the locations of the two functions, and those between Take and Give
CriticalLocs == {"m_check", "m_malloc", "m_add", "m_store", "m_printf", "m_give",
                 "f_free", "f_sub", "f_store", "f_give"}
CallLocs == CriticalLocs \cup {"m_take", "f_entry", "f_take"}
\* the locations at which a task is suspended in vTaskDelay
DelayLocs == {"t_hold", "t_sleep", "h_sleep", "s_sleep"}
UsageNext(h) == IF h = sensorTaskHandle THEN sensorMemUsage' ELSE commMemUsage'

\* C11: vPortFreeWithTracking with a null pointer returns at once, for every size
\* and handle: memMutex is not taken, vPortFree is not called, no counter changes,
\* however often the call is made.
C11_State ==
    \A t \in Threads :
        pc[t] \in {"f_take", "f_free", "f_sub", "f_store", "f_give"} => ptr[t] # NULL
C11_Step ==
    \A t \in Threads :
        (pc[t] = "f_entry" /\ ptr[t] = NULL /\ pc'[t] # pc[t]) =>
            /\ pc'[t] = ret[t]
            /\ UNCHANGED <<ledger, memMutex, heap, owner>>
C11_NullFreeIsNoOp == []C11_State /\ [][C11_Step]_vars

\* a null release is under way whose size exceeds the usage of the unit it names
C11_Witness ==
    \E t \in Callers :
        /\ pc[t] = "f_entry"
        /\ ptr[t] = NULL
        /\ argHandle[t] \in Units
        /\ Usage(argHandle[t]) > 0
        /\ argSize[t] > Usage(argHandle[t])

\* C12: under a fair scheduler and a mutex granted to every waiter, every call that
\* starts returns, some step is always possible, and each workload unit completes
\* iterations again and again.
C12_Liveness ==
    /\ \A w \in Workers : []<>(pc[w] = "t_sleep") /\ []<>(pc[w] = "t_loop")
    /\ \A w \in Workers : (pc[w] = "m_take") ~> (pc[w] = "t_got")
    /\ \A w \in Workers : (pc[w] = "f_entry") ~> (pc[w] = "t_freed")
    /\ [](ENABLED Next)

\* one unit waits for the mutex while the other is inside its critical section
C12_Witness ==
    \E w \in Workers :
        /\ pc[w] \in {"m_take", "f_take"}
        /\ memMutex \in Workers \ {w}

\* C13: memMutex is held exactly from Take to Give: every return from the two
\* functions releases it (or never took it, on the null-pointer return), no thread
\* holds it outside the functions or while delayed, and Take is the only step of the
\* two functions that can block.
C13_State ==
    \A t \in Threads :
        /\ memMutex = t <=> pc[t] \in CriticalLocs
        /\ pc[t] \in DelayLocs => memMutex # t
        /\ pc[t] \in CallLocs \ {"m_take", "f_take"} => ENABLED QuotaStep(t)
C13_Step ==
    \A t \in Threads :
        /\ (memMutex # t /\ memMutex' = t) => pc[t] \in {"m_take", "f_take"}
        /\ (memMutex = t /\ memMutex' # t) =>
              pc[t] \in {"m_give", "f_give"} /\ memMutex' = NoTask
        /\ (pc[t] \in CallLocs /\ pc'[t] \notin CallLocs) =>
              \/ pc[t] \in {"m_give", "f_give"} /\ memMutex = t /\ memMutex' = NoTask
              \/ pc[t] = "f_entry" /\ ptr[t] = NULL /\ UNCHANGED memMutex
C13_LockDiscipline == []C13_State /\ [][C13_Step]_vars

\* a call with an unrecognised handle has returned and the mutex is free
C13_Witness ==
    \E t \in Callers :
        /\ pc[t] = "c_got"
        /\ argHandle[t] = otherHandle
        /\ memMutex = NoTask

\* C14: pvPortMalloc and vPortFree are called only by the holder of memMutex, and
\* at most one thread is inside a Heap Provider call or a counter update.
C14_HeapUnderLock ==
    /\ \A t \in Threads : pc[t] \in {"m_malloc", "f_free"} => memMutex = t
    /\ Cardinality({t \in Threads :
          pc[t] \in {"m_malloc", "f_free", "m_add", "m_store", "f_sub", "f_store"}}) <= 1

\* one thread is about to call vPortFree while another waits for the mutex
C14_Witness ==
    \E t, u \in Threads :
        /\ t # u
        /\ pc[t] = "f_free"
        /\ pc[u] \in {"m_take", "f_take"}

\* C15: each iteration of SensorTask / CommTask makes one request from the top of
\* the loop; on null it goes straight to the sleep, on success it releases once,
\* with the pointer received, the size requested and its own handle, before the
\* sleep; after the sleep it is back at the top of the loop.
C15_Step ==
    \A w \in Workers :
        /\ (pc'[w] = "m_take" /\ pc[w] # "m_take") => pc[w] = "t_loop"
        /\ (pc[w] = "t_loop" /\ pc'[w] # pc[w]) =>
              /\ pc'[w] = "m_take"
              /\ argHandle'[w] = w
              /\ argSize'[w] = allocSize'[w]
        /\ (pc[w] = "m_give" /\ pc'[w] # pc[w]) => pc'[w] = "t_got"
        /\ (pc[w] = "t_got" /\ pc'[w] # pc[w]) =>
              IF ptr[w] = NULL
              THEN pc'[w] = "t_sleep"
              ELSE pc'[w] = "t_print" /\ data'[w] = ptr[w]
        /\ (pc[w] = "t_print" /\ pc'[w] # pc[w]) => pc'[w] = "t_hold"
        /\ (pc[w] = "t_hold" /\ pc'[w] # pc[w]) => pc'[w] = "f_entry"
        /\ (pc'[w] = "f_entry" /\ pc[w] # "f_entry") =>
              /\ pc[w] = "t_hold"
              /\ data[w] # NULL
              /\ ptr'[w] = data[w]
              /\ argSize'[w] = allocSize[w]
              /\ argHandle'[w] = w
              /\ heap[data[w]] = allocSize[w]
              /\ owner[data[w]] = w
        /\ (pc[w] \in {"f_entry", "f_give"} /\ pc'[w] \notin CallLocs) =>
              pc'[w] = "t_freed"
        /\ (pc[w] = "t_freed" /\ pc'[w] # pc[w]) => pc'[w] = "t_sleep"
        /\ (pc'[w] = "t_sleep" /\ pc[w] # "t_sleep") =>
              \/ pc[w] = "t_got" /\ ptr[w] = NULL
              \/ pc[w] = "t_freed"
        /\ (pc[w] = "t_sleep" /\ pc'[w] # pc[w]) => pc'[w] = "t_loop"
C15_IterationProtocol == [][C15_Step]_vars

\* a unit sleeps after a rejected request, another after a release
C15_Witness ==
    /\ pc[commTaskHandle] = "t_sleep"
    /\ data[commTaskHandle] = NULL
    /\ pc[sensorTaskHandle] = "t_sleep"
    /\ data[sensorTaskHandle] # NULL

\* C16: no step of HeapMonitorTask / StackMonitorTask changes a counter or the
\* mutex, neither ever holds the mutex, and each can take its next step whoever
\* holds the mutex.
C16_State ==
    /\ memMutex \notin Monitors
    /\ ENABLED (HeapMonitorReport \/ HeapMonitorWake)
    /\ ENABLED (StackMonitorReport \/ StackMonitorWake)
C16_Step ==
    (\E m \in Monitors : pc'[m] # pc[m]) => UNCHANGED <<ledger, memMutex>>
C16_ObserversReadOnly == []C16_State /\ [][C16_Step]_vars

\* both observers are due to report while a workload unit holds the mutex
C16_Witness ==
    /\ memMutex \in Workers
    /\ pc[heapMonitorHandle] = "h_loop"
    /\ pc[stackMonitorHandle] = "s_loop"

\* C17: the Heap Provider is invoked, and used can grow, only when the true sum
\* used + size is <= quota; a size that makes the sum wrap is rejected with the
\* Quota exceeded line.
C17_CheckSoundUnderWrap ==
    \A t \in Threads :
        (/\ argHandle[t] \in Units
         /\ pc[t] \in {"m_malloc", "m_add", "m_store", "m_give", "c_got", "t_got"}
         /\ seen[t] + argSize[t] > Quota(argHandle[t])) =>
            /\ pc[t] # "m_malloc"
            /\ heapCalls[t] = 0
            /\ pc[t] \in {"m_give", "c_got", "t_got"} => Len(serial[t]) > 0

\* C18: in the program each workload unit has at most one block; its used is 0 when
\* it issues a request and the requested size while it holds the block; SensorTask
\* is never rejected for quota, CommTask exactly when its size is above 2048.
C18_OneBlockPerUnit ==
    /\ \A w \in Workers :
        /\ Cardinality({p \in Ptrs : owner[p] = w}) <= 1
        /\ pc[w] \in {"t_loop", "m_take", "m_check"} => Usage(w) = 0
        /\ pc[w] \in {"t_print", "t_hold", "f_entry", "f_take", "f_free"} =>
              /\ Usage(w) = allocSize[w]
              /\ heap[data[w]] = allocSize[w]
    /\ pc[sensorTaskHandle] # "m_printf"
    /\ pc[commTaskHandle] \in {"m_malloc", "m_printf"} =>
          (pc[commTaskHandle] = "m_printf" <=> argSize[commTaskHandle] > COMM_TASK_QUOTA)

\* CommTask is rejected for one byte too many while SensorTask holds its block
C18_Witness ==
    /\ pc[commTaskHandle] = "m_printf"
    /\ argSize[commTaskHandle] = COMM_TASK_QUOTA + 1
    /\ pc[sensorTaskHandle] = "t_hold"

\* C19 (as stated): a release with a size greater than used makes used
\* (used - size) mod 2^w, a value greater than quota, and used stays greater than
\* quota from then on.
C19_OrigStep ==
    /\ \A t \in Threads :
        (/\ pc[t] = "f_store" /\ pc'[t] # pc[t]
         /\ argHandle[t] \in Units
         /\ argSize[t] > reg[t]) =>
            /\ UsageNext(argHandle[t]) = (reg[t] - argSize[t] + SizeMod) % SizeMod
            /\ UsageNext(argHandle[t]) > Quota(argHandle[t])
    /\ \A h \in Units : Usage(h) > Quota(h) => UsageNext(h) > Quota(h)
C19_UnderflowBreaksForGood == [][C19_OrigStep]_vars

\* C19 (amended): a release never clamps: used becomes (used - size) mod 2^w, which
\* is greater than quota when size exceeds used by less than 2^w - quota.
C19_Step ==
    \A t \in Threads :
        (pc[t] = "f_store" /\ pc'[t] # pc[t] /\ argHandle[t] \in Units) =>
            /\ UsageNext(argHandle[t]) = (reg[t] - argSize[t] + SizeMod) % SizeMod
            /\ (/\ argSize[t] > reg[t]
                /\ argSize[t] - reg[t] < SizeMod - Quota(argHandle[t])) =>
                  UsageNext(argHandle[t]) > Quota(argHandle[t])
C19_NoClamping == [][C19_Step]_vars

\* a mismatched release has left a unit's used above its quota
C19_Witness ==
    /\ misuse > 0
    /\ pc[Misuser] = "c_idle"
    /\ \E h \in Units : Usage(h) > Quota(h)

\* C20: with a handle that is neither unit's, pvPortMallocWithQuota returns null
\* without calling the Heap Provider, printing or touching a counter, and
\* vPortFreeWithTracking with a non-null pointer releases the block and touches no
\* counter; both give the mutex back.
C20_State ==
    \A t \in Threads : argHandle[t] = otherHandle =>
        /\ pc[t] \notin {"m_malloc", "m_add", "m_store", "m_printf", "f_sub", "f_store"}
        /\ pc[t] \in {"m_give", "c_got"} =>
              ptr[t] = NULL /\ heapCalls[t] = 0 /\ serial[t] = <<>>
        /\ pc[t] = "c_got" => memMutex # t
        /\ pc[t] = "f_give" => ptr[t] # NULL /\ heap[ptr[t]] = 0
C20_Step ==
    \A t \in Threads :
        (argHandle[t] = otherHandle /\ pc[t] \in CallLocs /\ pc'[t] # pc[t]) =>
            /\ UNCHANGED ledger
            /\ pc[t] = "f_free" => heap[ptr[t]] # 0 /\ heap'[ptr[t]] = 0
            /\ pc[t] \in {"m_give", "f_give"} => memMutex' # t
C20_UnknownHandle == []C20_State /\ [][C20_Step]_vars

\* a block is being released under the unrecognised handle while its unit's
\* counter still counts it
C20_Witness ==
    /\ pc[Misuser] = "f_give"
    /\ argHandle[Misuser] = otherHandle
    /\ ptr[Misuser] # NULL
    /\ \E h \in Units : Usage(h) > LiveBytes(h)

====
